---- MODULE Spec2Model ----
(***************************************************************************)
(* A model of cleanup_music_folder_files.py: the per-directory pipeline    *)
(* (PDF pass, AUX pass, generic checksum dedup, audio/sidecar pairing),    *)
(* the directory walker and the configuration merge.                       *)
(*                                                                         *)
(* File names are sequences of one-character strings, so that splitext,    *)
(* lower(), string concatenation, the track regular expression and the     *)
(* lexicographic order of Python strings are computed, not assumed.        *)
(***************************************************************************)
EXTENDS Integers, Sequences, FiniteSets, TLC

(***************************************************************************)
(* Characters and strings                                                  *)
(***************************************************************************)

\* The characters of the model in code-point order (Python compares str by
\* code point): ' ' < '-' < '.' < digits < ':' < 'A'..'Z' < '_' < 'a'..'z'.
CharOrder ==
    << " ", "-", ".", "0", "1", "2", "3", "4", "5", "6", "7", "8", "9", ":",
       "A", "B", "C", "D", "E", "F", "G", "H", "I", "J", "K", "L", "M", "N",
       "O", "P", "Q", "R", "S", "T", "U", "V", "W", "X", "Y", "Z", "_",
       "a", "b", "c", "d", "e", "f", "g", "h", "i", "j", "k", "l", "m", "n",
       "o", "p", "q", "r", "s", "t", "u", "v", "w", "x", "y", "z" >>

Ord(c) == CHOOSE i \in 1..Len(CharOrder) : CharOrder[i] = c

Digits == << "0", "1", "2", "3", "4", "5", "6", "7", "8", "9" >>

IsDigit(c) == \E i \in 1..10 : Digits[i] = c

DigitVal(c) == (CHOOSE i \in 1..10 : Digits[i] = c) - 1

IsUpper(c) == Ord(c) >= Ord("A") /\ Ord(c) <= Ord("Z")

IsAlpha(c) == IsUpper(c) \/ (Ord(c) >= Ord("a") /\ Ord(c) <= Ord("z"))

IsSpace(c) == c = " "

\* str.lower() on one character
LowerChar(c) == IF IsUpper(c) THEN CharOrder[Ord(c) + 27] ELSE c

\* str.lower()
Lower(s) == [i \in 1..Len(s) |-> LowerChar(s[i])]

\* s[i:] of Python with a 1-based i
Drop(s, i) == SubSeq(s, i, Len(s))

\* str.startswith
StartsWith(s, p) == Len(s) >= Len(p) /\ SubSeq(s, 1, Len(p)) = p

\* Python's s < t on strings
RECURSIVE LexLess(_, _)
LexLess(s, t) ==
    IF t = << >> THEN FALSE
    ELSE IF s = << >> THEN TRUE
    ELSE IF s[1] # t[1] THEN Ord(s[1]) < Ord(t[1])
    ELSE LexLess(Tail(s), Tail(t))

LexLeq(s, t) == s = t \/ LexLess(s, t)

\* min() of a non-empty set of strings
LexMin(S) == CHOOSE n \in S : \A o \in S : LexLeq(n, o)

\* sorted() of a set of strings
RECURSIVE SortNames(_)
SortNames(S) ==
    IF S = {} THEN << >>
    ELSE LET m == LexMin(S) IN << m >> \o SortNames(S \ {m})

\* the elements of a sequence
Range(s) == {s[i] : i \in 1..Len(s)}

\* str(n) for a natural number
RECURSIVE Decimal(_)
Decimal(n) ==
    IF n < 10 THEN << Digits[n + 1] >>
    ELSE Decimal(n \div 10) \o << Digits[(n % 10) + 1] >>

\* str.strip() for the white space of the model
RECURSIVE LStrip(_)
LStrip(s) == IF s # << >> /\ IsSpace(s[1]) THEN LStrip(Tail(s)) ELSE s

RECURSIVE RStrip(_)
RStrip(s) ==
    IF s # << >> /\ IsSpace(s[Len(s)]) THEN RStrip(SubSeq(s, 1, Len(s) - 1))
    ELSE s

Strip(s) == RStrip(LStrip(s))

\* os.path.splitext: the extension starts at the last dot, unless only dots
\* precede it (a leading-dot name has no extension)
SplitPos(s) ==
    LET dots == {i \in 1..Len(s) : s[i] = "."}
    IN  IF dots = {} THEN 0
        ELSE LET last == CHOOSE i \in dots : \A j \in dots : j <= i
             IN  IF \E j \in 1..(last - 1) : s[j] # "." THEN last ELSE 0

Stem(s) == IF SplitPos(s) = 0 THEN s ELSE SubSeq(s, 1, SplitPos(s) - 1)

Ext(s) == IF SplitPos(s) = 0 THEN << >> ELSE Drop(s, SplitPos(s))

LowerExt(s) == Lower(Ext(s))

(***************************************************************************)
(* State                                                                   *)
(***************************************************************************)

VARIABLES
    fs,              \* directory -> (file name -> [c, m, rd, mv]): the tree's files
    tree,            \* the directory tree: parent, name, symlink flag of each directory
    args,            \* the command line: [recursive, force]
    cfg,             \* the TOML configuration found at start-up (a partial key -> value map)
    haveMagic,       \* HAVE_MAGIC: python-magic was importable
    havePyPdf2,      \* HAVE_PYPDF2: PyPDF2 was importable
    pdfExts,         \* PDF_EXTS
    auxExts,         \* AUX_EXTS
    sidecarExts,     \* SIDECAR_EXTS
    sidecarPrefixes, \* SIDECAR_PREFIXES
    ignoreNoSpace,   \* IGNORE_NO_SPACE
    recursiveDefault,\* RECURSIVE_DEFAULT
    recursive,       \* main's local: recursive
    dryRun,          \* main's local: dry_run
    pc,              \* position of main / process_directory
    stack,           \* os.walk: the directories still to be yielded, next first
    cur,             \* the directory process_directory is working on
    files,           \* process_directory's local: files (the last listing)
    survivors,       \* process_aux_files' local: survivors
    actionLog,       \* action_log
    actionCounters,  \* action_counters
    visited,         \* history: the directories handed to process_directory, in order
    passes,          \* history: <<directory, pass>> of the passes run, in order
    pre,             \* history: [t, n], cur's file table and the length of
                     \*   action_log before the last step of process_directory
    run,             \* number of the current invocation of the tool (1, 2, ...)
    startFs,         \* history: fs as it was when the current invocation started
    trackName,       \* extract_track_info's argument: filename
    trackInfo,       \* extract_track_info's result
    selected,        \* history: the candidates each checksum pass selected in cur
    preview          \* history: action_log of the dry run that came before this run

vars == << fs, tree, args, cfg, haveMagic, havePyPdf2, pdfExts, auxExts,
           sidecarExts, sidecarPrefixes, ignoreNoSpace, recursiveDefault,
           recursive, dryRun, pc, stack, cur, files, survivors, actionLog,
           actionCounters, visited, passes, pre, run, startFs, trackName,
           trackInfo, selected, preview >>

(***************************************************************************)
(* Filesystem and metadata helpers                                         *)
(***************************************************************************)

\* file_mtime of a file of the directory table t
file_mtime(t, n) == t[n].m

\* os.remove: the table without n
OsRemove(t, n) == [x \in (DOMAIN t) \ {n} |-> t[x]]

\* os.remove raises for a file that cannot be unlinked
CanRemove(t, n) == n \in DOMAIN t /\ t[n].mv

\* os.replace: src takes the place of dst (content, mtime and attributes move)
OsReplace(t, src, dst) ==
    [x \in ((DOMAIN t) \ {src}) \cup {dst} |-> IF x = dst THEN t[src] ELSE t[x]]

\* os.replace raises when the source cannot be moved or the target not replaced
CanReplace(t, src, dst) ==
    /\ src \in DOMAIN t
    /\ t[src].mv
    /\ (dst \in DOMAIN t => t[dst].mv)

\* sorted(os.listdir(dirpath)) filtered by os.path.isfile
ListFiles(t) == SortNames(DOMAIN t)

\* the extensions mimetypes.guess_type maps to an audio/* type (case-insensitively)
AudioMimeExts == { << ".", "m", "p", "3" >>, << ".", "w", "a", "v" >> }

\* get_mime_type + is_audio: python-magic sniffs the content when it can read the
\* file, otherwise the type is guessed from the extension
is_audio(t, n) ==
    IF haveMagic /\ t[n].rd THEN t[n].c.audio
    ELSE LowerExt(n) \in AudioMimeExts

\* ILLEGAL_CHARS_RE restricted to the characters of the model
IllegalChars == { ":" }

RECURSIVE ReplaceIllegal(_)
ReplaceIllegal(s) ==
    IF s = << >> THEN << >>
    ELSE (IF s[1] \in IllegalChars THEN << " ", "-", " " >> ELSE << s[1] >>)
         \o ReplaceIllegal(Tail(s))

\* re.sub(r'\s+', ' ', s)
RECURSIVE CollapseSpace(_)
CollapseSpace(s) ==
    IF s = << >> THEN << >>
    ELSE IF IsSpace(s[1]) THEN << " " >> \o CollapseSpace(LStrip(s))
    ELSE << s[1] >> \o CollapseSpace(Tail(s))

sanitize_filename_component(s) == Strip(CollapseSpace(ReplaceIllegal(s)))

NoMatch == [match |-> FALSE, track |-> 0, rest |-> << >>]

\* group 2 of TRACK_RE for the text r that follows the track digits (r is not
\* empty): \s* and the optional separator are greedy and give characters back
\* only when (.+) would otherwise be left with nothing
TrackRest(r) ==
    LET r1 == LStrip(r)
    IN  IF r1 = << >> THEN << r[Len(r)] >>
        ELSE IF r1[1] = "-"
             THEN LET r2 == Tail(r1)
                      r3 == LStrip(r2)
                  IN  IF r3 # << >> THEN r3
                      ELSE IF r2 # << >> THEN << r2[Len(r2)] >>
                      ELSE r1
        ELSE r1

\* extract_track_info: None, or (track, rest)
extract_track_info(filename) ==
    LET base == Stem(filename)
        s0   == LStrip(base)
    IN  IF ignoreNoSpace /\ " " \notin Range(filename) THEN NoMatch
        ELSE IF s0 = << >> \/ ~IsDigit(s0[1]) THEN NoMatch
        ELSE IF Len(s0) >= 3 /\ IsDigit(s0[2])
             THEN [match |-> TRUE,
                   track |-> 10 * DigitVal(s0[1]) + DigitVal(s0[2]),
                   rest  |-> Strip(TrackRest(Drop(s0, 3)))]
        ELSE IF Len(s0) >= 2
             THEN [match |-> TRUE,
                   track |-> DigitVal(s0[1]),
                   rest  |-> Strip(TrackRest(Drop(s0, 2)))]
        ELSE NoMatch

\* the metadata PyPDF2 reads off a PDF's content: Title and Author, stripped;
\* {} when PyPDF2 is missing
read_pdf_metadata(f) ==
    IF havePyPdf2
    THEN [Title |-> Strip(f.c.title), Author |-> Strip(f.c.author)]
    ELSE [Title |-> << >>, Author |-> << >>]

\* unique_target_path, the loop from `suffix` on
RECURSIVE UniqueSuffixed(_, _, _, _)
UniqueSuffixed(t, base_name, ext, suffix) ==
    LET candidate == base_name \o << " ", "-", " " >> \o Decimal(suffix) \o ext
    IN  IF candidate \notin DOMAIN t THEN candidate
        ELSE UniqueSuffixed(t, base_name, ext, suffix + 1)

FirstSuffix == 1

\* unique_target_path without its existence test
unique_target_path_plain(t, base_name, ext) == base_name \o ext

\* unique_target_path: <base><ext> when free, else the first free <base> - N<ext>
unique_target_path(t, base_name, ext) ==
    IF (base_name \o ext) \notin DOMAIN t THEN base_name \o ext
    ELSE UniqueSuffixed(t, base_name, ext, FirstSuffix)

\* choose_preferred_by_mtime with the tie broken towards the last name
choose_preferred_last(t, paths) ==
    LET max_mtime  == CHOOSE m \in {file_mtime(t, p) : p \in Range(paths)} :
                          \A p \in Range(paths) : file_mtime(t, p) <= m
        candidates == {p \in Range(paths) : file_mtime(t, p) = max_mtime}
    IN  CHOOSE n \in candidates : \A o \in candidates : LexLeq(o, n)

\* choose_preferred_by_mtime over a non-empty list of names of the table t
choose_preferred_by_mtime(t, paths) ==
    LET max_mtime  == CHOOSE m \in {file_mtime(t, p) : p \in Range(paths)} :
                          \A p \in Range(paths) : file_mtime(t, p) <= m
        candidates == {p \in Range(paths) : file_mtime(t, p) = max_mtime}
    IN  LexMin(candidates)

\* is_sidecar_by_prefix
is_sidecar_by_prefix(filename) ==
    LET base == Lower(Stem(filename))
    IN  \E prefix \in sidecarPrefixes :
            LET p == Lower(prefix)
            IN  \/ base = p
                \/ \E sep \in {" ", "-", "_", "."} : StartsWith(base, p \o << sep >>)
                \/ /\ StartsWith(base, p)
                   /\ Len(base) > Len(p)
                   /\ ~IsAlpha(base[Len(p) + 1])

(***************************************************************************)
(* Core operations.  An operation works on a record                        *)
(*   [t: the directory's file table, log: action_log, cnt: action_counters,*)
(*    raised: an exception left the operation uncaught]                    *)
(* and returns the record it leaves behind.  Once raised is set nothing    *)
(* more is done: the exception propagates to main.                         *)
(***************************************************************************)

CounterKeys ==
    {"removed_duplicates", "renames", "replacements", "removed_sidecars",
     "renamed_sidecars"}

\* vaction: one entry appended to action_log
vaction(st, op, src, dst, dry) ==
    [st EXCEPT !.log = Append(@, [op |-> op, src |-> src, dst |-> dst, dry |-> dry])]

\* action_counters[key] += k
Count(st, key, k) == [st EXCEPT !.cnt[key] = @ + k]

\* os.remove(path) outside a try block
TryRemove_uncaught(st, n) ==
    IF CanRemove(st.t, n) THEN [st EXCEPT !.t = OsRemove(@, n)]
    ELSE [st EXCEPT !.raised = TRUE]

\* try: os.remove(path) / except Exception: vwarn(...)
TryRemove(st, n) ==
    IF CanRemove(st.t, n) THEN [st EXCEPT !.t = OsRemove(@, n)] ELSE st

\* try: os.replace(src, target) / except Exception: vwarn(...)
TryReplace(st, src, dst) ==
    IF CanReplace(st.t, src, dst) THEN [st EXCEPT !.t = OsReplace(@, src, dst)] ELSE st

\* an exception outside every try block
Raise(st) == [st EXCEPT !.raised = TRUE]

\* try: h = sha256_of_file(path) / except Exception: vwarn(...); continue
Hashed(t, names) == SelectSeq(names, LAMBDA n : t[n].rd)

\* the keys of checksum_map in insertion order: the hashes (contents) of the
\* files of `names`, each at its first occurrence
RECURSIVE ChecksumKeys(_, _, _)
ChecksumKeys(t, names, seen) ==
    IF names = << >> THEN << >>
    ELSE LET n == Head(names)
         IN  IF t[n].c \in seen
             THEN ChecksumKeys(t, Tail(names), seen)
             ELSE << t[n].c >> \o ChecksumKeys(t, Tail(names), seen \cup {t[n].c})

\* checksum_map as the list of its groups, in insertion order; a file whose
\* sha256_of_file raises is in no group
ChecksumGroups(t, names) ==
    LET hashed == Hashed(t, names)
        keys   == ChecksumKeys(t, hashed, {})
    IN  [i \in 1..Len(keys) |-> SelectSeq(hashed, LAMBDA n : t[n].c = keys[i])]

\* the removal loop of one duplicate group in process_aux_files
RECURSIVE AuxRemoveLoop(_, _, _, _)
AuxRemoveLoop(st, group, newest_name, dry) ==
    IF st.raised \/ group = << >> THEN st
    ELSE LET g == Head(group)
         IN  IF g = newest_name THEN AuxRemoveLoop(st, Tail(group), newest_name, dry)
             ELSE LET s1 == vaction(Count(st, "removed_duplicates", 1),
                                    "Remove duplicate (checksum)", g, << >>, dry)
                      s2 == IF ~dry THEN TryRemove(s1, g) ELSE s1
                  IN  AuxRemoveLoop(s2, Tail(group), newest_name, dry)

\* the group loop of process_aux_files: [st, survivors]
RECURSIVE AuxDedup(_, _, _, _)
AuxDedup(st, groups, survs, dry) ==
    IF st.raised \/ groups = << >> THEN [st |-> st, survivors |-> survs]
    ELSE LET group == Head(groups)
         IN  IF Len(group) = 1
             THEN AuxDedup(st, Tail(groups), Append(survs, group[1]), dry)
             ELSE LET newest_name == choose_preferred_by_mtime(st.t, group)
                  IN  AuxDedup(AuxRemoveLoop(st, group, newest_name, dry),
                               Tail(groups), Append(survs, newest_name), dry)

\* rename with the dry-run test left out
rename_unguarded(st, base_name, dry, ext, src) ==
    LET target == unique_target_path(st.t, base_name, ext)
        prefix == IF ext \in auxExts \/ ext \in pdfExts
                  THEN "Rename Album Related:" ELSE "Rename Audio:"
        s1     == vaction(Count(st, "renames", 1), prefix, src, target, dry)
    IN  TryReplace(s1, src, target)

\* rename: the canonical renamer's one rename
rename(st, base_name, dry, ext, src) ==
    LET target == unique_target_path(st.t, base_name, ext)
        prefix == IF ext \in auxExts \/ ext \in pdfExts
                  THEN "Rename Album Related:" ELSE "Rename Audio:"
        s1     == vaction(Count(st, "renames", 1), prefix, src, target, dry)
    IN  IF ~dry THEN TryReplace(s1, src, target) ELSE s1

\* the base name process_aux_files derives from a survivor's metadata
MetaBaseName(folder_name, meta) ==
    folder_name
    \o (IF meta.Author # << >>
        THEN << " ", "-", " " >> \o sanitize_filename_component(meta.Author)
        ELSE << >>)
    \o (IF meta.Title # << >>
        THEN << " ", "-", " " >> \o sanitize_filename_component(meta.Title)
        ELSE << >>)

\* the loops over meta_named and over standard_named_sorted: infos is a list of
\* [path, base_name]
RECURSIVE RenameLoop(_, _, _)
RenameLoop(st, infos, dry) ==
    IF st.raised \/ infos = << >> THEN st
    ELSE LET info == Head(infos)
             ext  == LowerExt(info.path)
         IN  IF info.path = info.base_name \o ext
             THEN RenameLoop(st, Tail(infos), dry)
             ELSE RenameLoop(rename(st, info.base_name, dry, ext, info.path),
                             Tail(infos), dry)

\* sorted(standard_named, key=mtime): a stable sort
RECURSIVE SortByMtime(_)
SortByMtime(infos) ==
    IF infos = << >> THEN << >>
    ELSE LET i == CHOOSE i \in 1..Len(infos) :
                      /\ \A j \in 1..Len(infos) : infos[i].mtime <= infos[j].mtime
                      /\ \A j \in 1..(i - 1) : infos[j].mtime > infos[i].mtime
         IN  << infos[i] >>
             \o SortByMtime(SubSeq(infos, 1, i - 1) \o SubSeq(infos, i + 1, Len(infos)))

\* selected of process_aux_files
AuxSelected(listing, exts) == SelectSeq(listing, LAMBDA f : LowerExt(f) \in exts)

\* process_aux_files up to the survivors list: [st, survivors]
AuxSurvivors(st, listing, exts, dry) ==
    AuxDedup(st, ChecksumGroups(st.t, AuxSelected(listing, exts)), << >>, dry)

\* process_aux_files from the survivors list on: the canonical renamer
AuxRename(st, folder_name, survs, use_pdf_meta, dry) ==
    LET \* file_mtime(p) of a survivor is read outside every try block
        info_list ==
            [i \in 1..Len(survs) |->
                LET p == survs[i]
                IN  [path  |-> p,
                     meta  |-> IF use_pdf_meta THEN read_pdf_metadata(st.t[p])
                               ELSE [Title |-> << >>, Author |-> << >>],
                     mtime |-> file_mtime(st.t, p)]]
        HasMeta(info) ==
            use_pdf_meta /\ (info.meta.Title # << >> \/ info.meta.Author # << >>)
        meta_sel == SelectSeq(info_list, HasMeta)
        meta_named ==
            [i \in 1..Len(meta_sel) |->
                [path      |-> meta_sel[i].path,
                 base_name |-> MetaBaseName(folder_name, meta_sel[i].meta)]]
        standard_sorted ==
            SortByMtime(SelectSeq(info_list, LAMBDA info : ~HasMeta(info)))
        standard_named ==
            [i \in 1..Len(standard_sorted) |->
                [path |-> standard_sorted[i].path, base_name |-> folder_name]]
    IN  IF \E i \in 1..Len(survs) : survs[i] \notin DOMAIN st.t
        THEN Raise(st)
        ELSE RenameLoop(RenameLoop(st, meta_named, dry), standard_named, dry)

\* the candidates of dedupe_non_pdf_by_checksum
GenericCandidates(listing) ==
    SelectSeq(listing,
              LAMBDA f : /\ LowerExt(f) \notin (pdfExts \cup auxExts \cup sidecarExts)
                         /\ ~is_sidecar_by_prefix(f))

\* the removal loop of one duplicate group in dedupe_non_pdf_by_checksum
RECURSIVE GenericRemoveLoop(_, _, _, _)
GenericRemoveLoop(st, group, newest_name, dry) ==
    IF st.raised \/ group = << >> THEN st
    ELSE LET g == Head(group)
         IN  IF g = newest_name
             THEN GenericRemoveLoop(st, Tail(group), newest_name, dry)
             ELSE LET s1 == vaction(st, "Remove duplicate (checksum) []", g, << >>, dry)
                      s2 == IF ~dry THEN TryRemove(s1, g) ELSE s1
                  IN  GenericRemoveLoop(s2, Tail(group), newest_name, dry)

\* the group loop of dedupe_non_pdf_by_checksum
RECURSIVE GenericDedup(_, _, _)
GenericDedup(st, groups, dry) ==
    IF st.raised \/ groups = << >> THEN st
    ELSE LET group == Head(groups)
         IN  IF Len(group) <= 1 THEN GenericDedup(st, Tail(groups), dry)
             ELSE LET newest_name == choose_preferred_by_mtime(st.t, group)
                      s1 == Count(st, "removed_duplicates", Len(group) - 1)
                  IN  GenericDedup(GenericRemoveLoop(s1, group, newest_name, dry),
                                   Tail(groups), dry)

\* dedupe_non_pdf_by_checksum; its return value is ListFiles of the table it leaves
dedupe_non_pdf_by_checksum(st, listing, dry) ==
    GenericDedup(st, ChecksumGroups(st.t, GenericCandidates(listing)), dry)

\* audio_files of process_audio_and_sidecars
AudioFiles(t, listing) ==
    SelectSeq(listing,
              LAMBDA fn : /\ LowerExt(fn) \notin (pdfExts \cup auxExts)
                          /\ ~(LowerExt(fn) \in sidecarExts \/ is_sidecar_by_prefix(fn))
                          /\ ~(ignoreNoSpace /\ " " \notin Range(fn))
                          /\ is_audio(t, fn))

\* other_files of process_audio_and_sidecars
OtherFiles(t, listing) ==
    SelectSeq(listing,
              LAMBDA fn : /\ LowerExt(fn) \notin (pdfExts \cup auxExts)
                          /\ \/ LowerExt(fn) \in sidecarExts
                             \/ is_sidecar_by_prefix(fn)
                             \/ /\ ~(ignoreNoSpace /\ " " \notin Range(fn))
                                /\ ~is_audio(t, fn))

\* track_map[track]: the audio files whose name parses to that track
TrackGroup(audio_files, track) ==
    SelectSeq(audio_files,
              LAMBDA a : extract_track_info(a).match /\ extract_track_info(a).track = track)

\* the keys of canonical_by_track
CanonicalTracks(audio_files) ==
    {extract_track_info(a).track :
        a \in {x \in Range(audio_files) : extract_track_info(x).match}}

\* canonical_by_track[track]: the preferred file of the track's group, chosen
\* again among the files to keep (which are that one file)
CanonicalByTrack(t, audio_files, track) ==
    LET preferred == choose_preferred_by_mtime(t, TrackGroup(audio_files, track))
    IN  choose_preferred_by_mtime(t, << preferred >>)

\* PairOne that never replaces an existing target: the source is deleted
PairOne_no_replace(st, f, target_name, dry) ==
    IF f = target_name THEN st
    ELSE IF target_name \in DOMAIN st.t
    THEN IF f \notin DOMAIN st.t THEN Raise(st)
         ELSE LET s1 == vaction(Count(st, "removed_sidecars", 1),
                                "Delete Sidecar:", f, target_name, dry)
              IN  IF ~dry THEN TryRemove(s1, f) ELSE s1
    ELSE LET s1 == vaction(Count(st, "renamed_sidecars", 1),
                           "Rename Sidecar:", f, target_name, dry)
         IN  IF ~dry THEN TryReplace(s1, f, target_name) ELSE s1

\* PairOne with the comparison target_mtime <= src_mtime
PairOne_leq(st, f, target_name, dry) ==
    IF f = target_name THEN st
    ELSE IF target_name \in DOMAIN st.t
    THEN IF f \notin DOMAIN st.t THEN Raise(st)
         ELSE IF file_mtime(st.t, target_name) <= file_mtime(st.t, f)
         THEN LET s1 == vaction(Count(st, "replacements", 1),
                                "Replace older target", f, target_name, dry)
              IN  IF ~dry THEN TryReplace(s1, f, target_name) ELSE s1
         ELSE LET s1 == vaction(Count(st, "removed_sidecars", 1),
                                "Delete Sidecar:", f, target_name, dry)
              IN  IF ~dry THEN TryRemove(s1, f) ELSE s1
    ELSE LET s1 == vaction(Count(st, "renamed_sidecars", 1),
                           "Rename Sidecar:", f, target_name, dry)
         IN  IF ~dry THEN TryReplace(s1, f, target_name) ELSE s1

\* one iteration of the sidecar loop, for the file f whose target is target_name
PairOne(st, f, target_name, dry) ==
    IF f = target_name THEN st
    ELSE IF target_name \in DOMAIN st.t
    THEN IF f \notin DOMAIN st.t THEN Raise(st)  \* file_mtime(src), outside try
         ELSE IF file_mtime(st.t, target_name) < file_mtime(st.t, f)
         THEN LET s1 == vaction(Count(st, "replacements", 1),
                                "Replace older target", f, target_name, dry)
              IN  IF ~dry THEN TryReplace(s1, f, target_name) ELSE s1
         ELSE LET s1 == vaction(Count(st, "removed_sidecars", 1),
                                "Delete Sidecar:", f, target_name, dry)
              IN  IF ~dry THEN TryRemove(s1, f) ELSE s1
    ELSE LET s1 == vaction(Count(st, "renamed_sidecars", 1),
                           "Rename Sidecar:", f, target_name, dry)
         IN  IF ~dry THEN TryReplace(s1, f, target_name) ELSE s1

\* the target name of the sidecar f whose track has the canonical audio file
SidecarTarget(canonical_audio, f) == Stem(canonical_audio) \o Ext(f)

\* the sidecar loop; canon is canonical_by_track as a function on its keys
RECURSIVE SidecarLoop(_, _, _, _)
SidecarLoop(st, other_files, canon, dry) ==
    IF st.raised \/ other_files = << >> THEN st
    ELSE LET f    == Head(other_files)
             info == extract_track_info(f)
         IN  IF ~info.match \/ info.track \notin DOMAIN canon
             THEN SidecarLoop(st, Tail(other_files), canon, dry)
             ELSE SidecarLoop(PairOne(st, f, SidecarTarget(canon[info.track], f), dry),
                              Tail(other_files), canon, dry)

\* canonical_by_track of the table t and the listing files_after_dedupe
CanonicalMap(t, listing) ==
    LET audio_files == AudioFiles(t, listing)
    IN  [track \in CanonicalTracks(audio_files) |->
            CanonicalByTrack(t, audio_files, track)]

\* process_audio_and_sidecars after its call of dedupe_non_pdf_by_checksum
PairSidecars(st, files_after_dedupe, dry) ==
    SidecarLoop(st, OtherFiles(st.t, files_after_dedupe),
                CanonicalMap(st.t, files_after_dedupe), dry)

(***************************************************************************)
(* Configuration                                                           *)
(***************************************************************************)

\* cfg is the parsed TOML table as a set of entries [key, type, val]; the empty
\* set stands for "no configuration file found"
NoConfig == {}

HasKey(c, key, type) == \E e \in c : e.key = key /\ e.type = type

ValueOf(c, key) == (CHOOSE e \in c : e.key = key).val

\* the module-level defaults
DefaultPdfExts == { << ".", "p", "d", "f" >> }
DefaultAuxExts == { << ".", "c", "u", "e" >> }
DefaultSidecarExts == { << ".", "l", "r", "c" >>, << ".", "t", "x", "t" >> }
DefaultSidecarPrefixes ==
    { << "c", "o", "v", "e", "r" >>, << "a", "l", "b", "u", "m", "a", "r", "t" >>,
      << "f", "o", "l", "d", "e", "r" >>, << "f", "r", "o", "n", "t" >>,
      << "b", "a", "c", "k" >>, << "p", "o", "s", "t", "e", "r" >> }
DefaultIgnoreNoSpace == TRUE
DefaultRecursiveDefault == TRUE

\* merge_config_into_globals, one boolean key
MergeBool(c, key, old) == IF HasKey(c, key, "bool") THEN ValueOf(c, key) ELSE old

\* merge_config_into_globals, one list key: set(_.lower() for _ in cfg[key])
MergeList(c, key, old) ==
    IF HasKey(c, key, "list") THEN {Lower(x) : x \in ValueOf(c, key)} ELSE old

\* main: recursive = args.recursive
RecursiveMode(a) == a.recursive

\* main: dry_run = not args.force
DryRunMode(a) == ~a.force

(***************************************************************************)
(* The directory tree                                                      *)
(***************************************************************************)

Root == 0

Dirs == DOMAIN tree.parent

Children(d) == {e \in Dirs : e # Root /\ tree.parent[e] = d}

\* the filter without its os.path.islink test
Pruned_dot_only(d) == StartsWith(tree.name[d], << "." >>)

\* the filter of main's os.walk loop: dirs[:] = [d for d in dirs if ...]
Pruned(d) == StartsWith(tree.name[d], << "." >>) \/ tree.link[d]

\* the orders in which os.walk may list a set of directories
Orders(S) ==
    {o \in [1..Cardinality(S) -> S] : \A i, j \in 1..Cardinality(S) : i # j => o[i] # o[j]}

\* the proper ancestors of d
RECURSIVE Ancestors(_)
Ancestors(d) ==
    IF d = Root THEN {} ELSE {tree.parent[d]} \cup Ancestors(tree.parent[d])

(***************************************************************************)
(* main and process_directory                                              *)
(***************************************************************************)

\* Relist that keeps the listing taken before the pass
Relist_stale(t, old) == old

\* process_directory re-lists the directory between its passes
Relist(t, old) == ListFiles(t)

\* the order of the steps of process_directory
NextPos(p) ==
    CASE p = "pdf_dedup"  -> "pdf_rename"
      [] p = "pdf_rename" -> "aux_dedup"
      [] p = "aux_dedup"  -> "aux_rename"
      [] p = "aux_rename" -> "dedup"
      [] p = "dedup"      -> "pair"
      [] p = "pair"       -> "walk"

\* no checksum pass has selected its candidates in the current directory yet
NoneSelected == [pdf |-> {}, aux |-> {}, other |-> {}]

\* the operation record of the current directory
Cur == [t |-> fs[cur], log |-> actionLog, cnt |-> actionCounters, raised |-> FALSE]

\* what every step of process_directory leaves behind: st is the record after
\* the step, listing the value of `files` after it
Commit(st, listing) ==
    /\ fs' = [fs EXCEPT ![cur] = st.t]
    /\ actionLog' = st.log
    /\ actionCounters' = st.cnt
    /\ files' = listing
    /\ pc' = IF st.raised THEN "aborted" ELSE NextPos(pc)
    /\ passes' = Append(passes, << cur, pc >>)
    /\ pre' = [t |-> fs[cur], n |-> Len(actionLog)]
    /\ UNCHANGED << tree, args, cfg, haveMagic, havePyPdf2, pdfExts, auxExts,
                    sidecarExts, sidecarPrefixes, ignoreNoSpace, recursiveDefault,
                    recursive, dryRun, stack, cur, visited, run, startFs,
                    trackName, trackInfo, preview >>

\* main up to the walk: arguments, configuration
Main ==
    /\ pc = "start"
    /\ dryRun' = DryRunMode(args)
    /\ recursive' = RecursiveMode(args)
    /\ ignoreNoSpace' = MergeBool(cfg, "ignore_no_space", ignoreNoSpace)
    /\ recursiveDefault' = MergeBool(cfg, "recursive_default", recursiveDefault)
    /\ pdfExts' = MergeList(cfg, "pdf_exts", pdfExts)
    /\ auxExts' = MergeList(cfg, "aux_exts", auxExts)
    /\ sidecarExts' = MergeList(cfg, "sidecar_exts", sidecarExts)
    /\ sidecarPrefixes' = MergeList(cfg, "sidecar_prefixes", sidecarPrefixes)
    /\ stack' = << Root >>
    /\ pc' = "walk"
    /\ UNCHANGED << fs, tree, args, cfg, haveMagic, havePyPdf2, cur, files,
                    survivors, actionLog, actionCounters, visited, passes, pre,
                    run, startFs, trackName, trackInfo, selected, preview >>

\* one iteration of main's loop: os.walk yields the next directory, its
\* sub-directories are pruned, process_directory lists it
WalkStep ==
    /\ pc = "walk"
    /\ stack # << >>
    /\ LET root == Head(stack)
           kept == {d \in Children(root) : ~Pruned(d)}
       IN  /\ IF recursive
              THEN \E o \in Orders(kept) : stack' = o \o Tail(stack)
              ELSE stack' = << >>
           /\ cur' = root
           /\ visited' = Append(visited, root)
           /\ selected' = NoneSelected
           /\ files' = ListFiles(fs[root])
           /\ pc' = IF ListFiles(fs[root]) = << >> THEN "walk" ELSE "pdf_dedup"
    /\ UNCHANGED << fs, tree, args, cfg, haveMagic, havePyPdf2, pdfExts, auxExts,
                    sidecarExts, sidecarPrefixes, ignoreNoSpace, recursiveDefault,
                    recursive, dryRun, survivors, actionLog, actionCounters,
                    passes, pre, run, startFs, trackName, trackInfo, preview >>

\* process_aux_files(PDF_EXTS, use_pdf_meta=True), the checksum part
PdfDedup ==
    /\ pc = "pdf_dedup"
    /\ LET r == AuxSurvivors(Cur, files, pdfExts, dryRun)
       IN  /\ survivors' = r.survivors
           /\ selected' = [selected EXCEPT !.pdf = Range(AuxSelected(files, pdfExts))]
           /\ Commit(r.st, files)

\* process_aux_files(PDF_EXTS, use_pdf_meta=True), the renamer, and the refresh
PdfRename ==
    /\ pc = "pdf_rename"
    /\ LET st == AuxRename(Cur, tree.name[cur], survivors, TRUE, dryRun)
       IN  /\ survivors' = << >>
           /\ UNCHANGED selected
           /\ Commit(st, Relist(st.t, files))

\* process_aux_files(AUX_EXTS, use_pdf_meta=False), the checksum part
AuxDedupStep ==
    /\ pc = "aux_dedup"
    /\ LET r == AuxSurvivors(Cur, files, auxExts, dryRun)
       IN  /\ survivors' = r.survivors
           /\ selected' = [selected EXCEPT !.aux = Range(AuxSelected(files, auxExts))]
           /\ Commit(r.st, files)

\* process_aux_files(AUX_EXTS, use_pdf_meta=False), the renamer, and the refresh
AuxRenameStep ==
    /\ pc = "aux_rename"
    /\ LET st == AuxRename(Cur, tree.name[cur], survivors, FALSE, dryRun)
       IN  /\ survivors' = << >>
           /\ UNCHANGED selected
           /\ Commit(st, Relist(st.t, files))

\* process_audio_and_sidecars: dedupe_non_pdf_by_checksum and its listing
GenericDedupStep ==
    /\ pc = "dedup"
    /\ LET st == dedupe_non_pdf_by_checksum(Cur, files, dryRun)
       IN  /\ survivors' = << >>
           /\ selected' = [selected EXCEPT !.other = Range(GenericCandidates(files))]
           /\ Commit(st, ListFiles(st.t))

\* process_audio_and_sidecars: classification, canonical files, sidecar loop
PairStep ==
    /\ pc = "pair"
    /\ LET st == PairSidecars(Cur, files, dryRun)
       IN  /\ survivors' = << >>
           /\ UNCHANGED selected
           /\ Commit(st, files)

\* main after the walk: the summary
Finish ==
    /\ pc = "walk"
    /\ stack = << >>
    /\ pc' = "done"
    /\ UNCHANGED << fs, tree, args, cfg, haveMagic, havePyPdf2, pdfExts, auxExts,
                    sidecarExts, sidecarPrefixes, ignoreNoSpace, recursiveDefault,
                    recursive, dryRun, stack, cur, files, survivors, actionLog,
                    actionCounters, visited, passes, pre, run, startFs,
                    trackName, trackInfo, selected, preview >>

(***************************************************************************)
(* Bounds and initial states                                               *)
(***************************************************************************)

MaxFiles == 3    \* files in the root directory at the start
MaxMtime == 2    \* modification times are 1..MaxMtime
MaxRuns  == 2    \* invocations of the tool in a row
MaxDirs  == 3    \* directories below the root

\* the tool is run again on the tree it left: a new process, so the module
\* globals, action_log and action_counters start afresh
Rerun ==
    /\ pc = "done"
    /\ run < MaxRuns
    /\ run' = run + 1
    /\ pc' = "start"
    /\ startFs' = fs
    /\ actionLog' = << >>
    /\ actionCounters' = [k \in CounterKeys |-> 0]
    /\ pdfExts' = DefaultPdfExts
    /\ auxExts' = DefaultAuxExts
    /\ sidecarExts' = DefaultSidecarExts
    /\ sidecarPrefixes' = DefaultSidecarPrefixes
    /\ ignoreNoSpace' = DefaultIgnoreNoSpace
    /\ recursiveDefault' = DefaultRecursiveDefault
    /\ stack' = << >>
    /\ visited' = << >>
    /\ passes' = << >>
    /\ files' = << >>
    /\ survivors' = << >>
    /\ pre' = [t |-> << >>, n |-> 0]
    /\ selected' = NoneSelected
    /\ UNCHANGED << fs, tree, args, cfg, haveMagic, havePyPdf2, recursive, dryRun, cur,
                    trackName, trackInfo, preview >>

Next ==
    \/ Main
    \/ WalkStep
    \/ PdfDedup
    \/ PdfRename
    \/ AuxDedupStep
    \/ AuxRenameStep
    \/ GenericDedupStep
    \/ PairStep
    \/ Finish
    \/ Rerun

\* the state of a process that has not run main yet
InitProcess ==
    /\ pdfExts = DefaultPdfExts
    /\ auxExts = DefaultAuxExts
    /\ sidecarExts = DefaultSidecarExts
    /\ sidecarPrefixes = DefaultSidecarPrefixes
    /\ ignoreNoSpace = DefaultIgnoreNoSpace
    /\ recursiveDefault = DefaultRecursiveDefault
    /\ recursive = FALSE
    /\ dryRun = TRUE
    /\ pc = "start"
    /\ stack = << >>
    /\ cur = Root
    /\ files = << >>
    /\ survivors = << >>
    /\ actionLog = << >>
    /\ actionCounters = [k \in CounterKeys |-> 0]
    /\ visited = << >>
    /\ passes = << >>
    /\ pre = [t |-> << >>, n |-> 0]
    /\ run = 1
    /\ startFs = fs
    /\ trackName = << >>
    /\ trackInfo = NoMatch
    /\ selected = NoneSelected
    /\ preview = << >>

\* file names of the initial trees
N_A_pdf   == << "A", ".", "p", "d", "f" >>
N_A1_pdf  == << "A", " ", "-", " ", "1", ".", "p", "d", "f" >>
N_b_PDF   == << "b", ".", "P", "D", "F" >>
N_A_cue   == << "A", ".", "c", "u", "e" >>
N_b_cue   == << "b", ".", "c", "u", "e" >>
N_01s_mp3 == << "0", "1", " ", "s", ".", "m", "p", "3" >>
N_01t_mp3 == << "0", "1", " ", "t", ".", "m", "p", "3" >>
N_01a_lrc == << "0", "1", " ", "a", ".", "l", "r", "c" >>
N_01b_lrc == << "0", "1", " ", "b", ".", "l", "r", "c" >>
N_01s_lrc == << "0", "1", " ", "s", ".", "l", "r", "c" >>
N_01b_jpg == << "0", "1", " ", "b", ".", "j", "p", "g" >>
N_02a_lrc == << "0", "2", " ", "a", ".", "l", "r", "c" >>
N_x_pdf   == << "x", ".", "p", "d", "f" >>

AlbumNames == {N_A_pdf, N_A1_pdf, N_b_PDF, N_A_cue, N_b_cue}
TrackNames == {N_01s_mp3, N_01t_mp3, N_01a_lrc, N_01b_lrc, N_01s_lrc, N_01b_jpg, N_02a_lrc}
MixedNames == {N_b_PDF, N_b_cue, N_01s_mp3, N_01a_lrc}
FailAlbumNames == {N_A_pdf, N_b_PDF}
FailTrackNames == {N_01s_mp3, N_01t_mp3, N_01a_lrc, N_01s_lrc}

NoMeta == [title |-> << >>, author |-> << >>]
SomeMeta == [title |-> << "T", ":" >>, author |-> << "U" >>]

\* a file content: its identity (which decides its SHA-256), whether libmagic
\* takes it for audio, and the document information PyPDF2 would read off it
Content(id, audio, meta) ==
    [id |-> id, audio |-> audio, title |-> meta.title, author |-> meta.author]

ContentIds == {1, 2}

\* the files a name may stand for: only a PDF carries document information, and
\* a file's content is audio exactly when its name says so
FilesOf(n, metas) ==
    {[c |-> Content(id, LowerExt(n) \in AudioMimeExts, meta), m |-> m,
      rd |-> TRUE, mv |-> TRUE] :
        id \in ContentIds, m \in 1..MaxMtime,
        meta \in (IF LowerExt(n) \in DefaultPdfExts THEN metas ELSE {NoMeta})}

\* the file tables whose files are exactly the names S
RECURSIVE TablesOn(_, _)
TablesOn(S, metas) ==
    IF S = {} THEN {<< >>}
    ELSE LET n == CHOOSE x \in S : TRUE
         IN  {[x \in (DOMAIN t) \cup {n} |-> IF x = n THEN f ELSE t[x]] :
                 t \in TablesOn(S \ {n}, metas), f \in FilesOf(n, metas)}

\* the file tables of at most MaxFiles files over the given names
Tables(names, metas) ==
    UNION {TablesOn(S, metas) : S \in {X \in SUBSET names : Cardinality(X) <= MaxFiles}}

SingleTree ==
    [parent |-> [d \in {Root} |-> Root],
     name   |-> [d \in {Root} |-> << "A" >>],
     link   |-> [d \in {Root} |-> FALSE]]

\* one album folder "A", default configuration, every operation succeeds
Init ==
    /\ tree = SingleTree
    /\ \E t \in Tables(AlbumNames, {NoMeta, SomeMeta}) \cup Tables(TrackNames, {NoMeta})
                  \cup Tables(MixedNames, {NoMeta}) :
           fs = [d \in {Root} |-> t]
    /\ args \in [recursive : {FALSE}, force : BOOLEAN]
    /\ cfg = NoConfig
    /\ haveMagic = FALSE
    /\ havePyPdf2 = TRUE
    /\ InitProcess

Spec == Init /\ [][Next]_vars

\* the one file of a sub-folder
WalkTable ==
    [x \in {N_x_pdf} |-> [c |-> Content(1, FALSE, NoMeta), m |-> 1, rd |-> TRUE, mv |-> TRUE]]

\* the album folder "A" with one sub-folder "d1"
FailTree ==
    [parent |-> [d \in {0, 1} |-> Root],
     name   |-> [d \in {0, 1} |-> IF d = Root THEN << "A" >> ELSE << "d", "1" >>],
     link   |-> [d \in {0, 1} |-> FALSE]]

\* the table t with the file n unreadable (rd) or immovable (mv)
Faulty(t, n, fault) ==
    [x \in DOMAIN t |->
        IF x # n THEN t[x]
        ELSE IF fault = "rd" THEN [t[x] EXCEPT !.rd = FALSE]
        ELSE [t[x] EXCEPT !.mv = FALSE]]

\* an apply-mode recursive run over a folder in which at most one file cannot
\* be read or cannot be removed, renamed or replaced
InitFail ==
    /\ tree = FailTree
    /\ \E t \in Tables(FailAlbumNames, {NoMeta}) \cup Tables(FailTrackNames, {NoMeta}) :
          \/ fs = [d \in {0, 1} |-> IF d = Root THEN t ELSE WalkTable]
          \/ \E n \in DOMAIN t, fault \in {"rd", "mv"} :
                fs = [d \in {0, 1} |-> IF d = Root THEN Faulty(t, n, fault) ELSE WalkTable]
    /\ args = [recursive |-> TRUE, force |-> TRUE]
    /\ cfg = NoConfig
    /\ haveMagic = FALSE
    /\ havePyPdf2 = TRUE
    /\ InitProcess

SpecFail == InitFail /\ [][Next]_vars

\* the name of the directory d of a generated tree by its kind
DirName(d, kind) ==
    CASE d = Root /\ kind = "plain"  -> << "A" >>
      [] d = Root /\ kind = "hidden" -> << ".", "A" >>
      [] d # Root /\ kind = "hidden" -> << ".", "d" >> \o Decimal(d)
      [] d # Root /\ kind = "link"   -> << "l" >> \o Decimal(d)
      [] OTHER                       -> << "d" >> \o Decimal(d)

\* the trees of MaxDirs directories below the root: each directory hangs under
\* an earlier one and is a plain directory, a dot-directory or a symbolic link
Trees ==
    {[parent |-> par,
      name   |-> [d \in 0..MaxDirs |-> DirName(d, kind[d])],
      link   |-> [d \in 0..MaxDirs |-> kind[d] = "link"]] :
        par  \in {q \in [0..MaxDirs -> 0..MaxDirs] :
                     \A d \in 0..MaxDirs : IF d = Root THEN q[d] = Root ELSE q[d] < d},
        kind \in {k \in [0..MaxDirs -> {"plain", "hidden", "link"}] : k[Root] # "link"}}

BoolEntry(key, b) == [key |-> key, type |-> "bool", val |-> b]

\* the configurations of the walker's runs: none, recursive_default set to
\* true or to false, or set to a string
WalkConfigs ==
    { NoConfig,
      {BoolEntry("recursive_default", TRUE)},
      {BoolEntry("recursive_default", FALSE)},
      {[key |-> "recursive_default", type |-> "str", val |-> TRUE]} }

\* a run, with or without -r, over a tree of directories that hold one PDF file
\* each, or none below the root, or none at all
InitWalk ==
    /\ tree \in Trees
    /\ \E F \in {{}, {Root}, 0..MaxDirs} :
          fs = [d \in 0..MaxDirs |-> IF d \in F THEN WalkTable ELSE << >>]
    /\ args \in [recursive : BOOLEAN, force : {TRUE}]
    /\ cfg \in WalkConfigs
    /\ haveMagic = FALSE
    /\ havePyPdf2 = TRUE
    /\ InitProcess

SpecWalk == InitWalk /\ [][Next]_vars

(***************************************************************************)
(* The track-name parser on its own                                        *)
(***************************************************************************)

MaxName == 5     \* length of the file names given to the parser

\* the characters of those file names: digits, a space, a separator, a letter
\* and the dot that starts the extension
ParseChars == {"0", "1", " ", "-", "a", "."}

ParseNames == UNION {[1..n -> ParseChars] : n \in 1..MaxName}

\* a call of extract_track_info(filename), as process_audio_and_sidecars makes
\* it for the files of a listing
ParseStep ==
    /\ pc = "walk"
    /\ \E fn \in ParseNames :
          /\ trackName' = fn
          /\ trackInfo' = extract_track_info(fn)
    /\ pc' = "parsed"
    /\ UNCHANGED << fs, tree, args, cfg, haveMagic, havePyPdf2, pdfExts, auxExts,
                    sidecarExts, sidecarPrefixes, ignoreNoSpace, recursiveDefault,
                    recursive, dryRun, stack, cur, files, survivors, actionLog,
                    actionCounters, visited, passes, pre, run, startFs, selected,
                    preview >>

NextParse ==
    \/ Main
    \/ ParseStep

\* the parser with the no-space guard as shipped, or switched off by the
\* configuration
InitParse ==
    /\ tree = SingleTree
    /\ fs = [d \in {Root} |-> << >>]
    /\ args = [recursive |-> FALSE, force |-> FALSE]
    /\ cfg \in {NoConfig, {BoolEntry("ignore_no_space", FALSE)}}
    /\ haveMagic = FALSE
    /\ havePyPdf2 = TRUE
    /\ InitProcess

SpecParse == InitParse /\ [][NextParse]_vars

(***************************************************************************)
(* Runs with python-magic installed                                        *)
(***************************************************************************)

MagicNames == {N_01s_mp3, N_01t_mp3, N_01a_lrc}

\* the files a name may stand for when libmagic sniffs the content: what the
\* content is does not follow from the name
MagicFilesOf(n) ==
    {[c |-> Content(id, audio, NoMeta), m |-> m, rd |-> TRUE, mv |-> TRUE] :
        id \in ContentIds, m \in 1..MaxMtime, audio \in BOOLEAN}

RECURSIVE MagicTablesOn(_)
MagicTablesOn(S) ==
    IF S = {} THEN {<< >>}
    ELSE LET n == CHOOSE x \in S : TRUE
         IN  {[x \in (DOMAIN t) \cup {n} |-> IF x = n THEN f ELSE t[x]] :
                 t \in MagicTablesOn(S \ {n}), f \in MagicFilesOf(n)}

\* one folder "A" of track files, default configuration, HAVE_MAGIC true
InitMagic ==
    /\ tree = SingleTree
    /\ \E S \in {X \in SUBSET MagicNames : Cardinality(X) <= MaxFiles} :
          \E t \in MagicTablesOn(S) : fs = [d \in {Root} |-> t]
    /\ args \in [recursive : {FALSE}, force : BOOLEAN]
    /\ cfg = NoConfig
    /\ haveMagic = TRUE
    /\ havePyPdf2 = TRUE
    /\ InitProcess

SpecMagic == InitMagic /\ [][Next]_vars

(***************************************************************************)
(* Runs with configured extension sets                                     *)
(***************************************************************************)

CfgNames == {N_A_pdf, N_b_PDF, N_b_cue, N_01a_lrc}

ListEntry(key, val) == [key |-> key, type |-> "list", val |-> val]

\* the configurations of these runs: each of pdf_exts, aux_exts and sidecar_exts
\* is left out or given as a list
ExtConfigs ==
    {p \cup a \cup c :
        p \in {{}, {ListEntry("pdf_exts", {<< ".", "p", "d", "f" >>})}},
        a \in {{}, {ListEntry("aux_exts", {<< ".", "C", "U", "E" >>,
                                           << ".", "p", "d", "f" >>})}},
        c \in {{}, {ListEntry("sidecar_exts", {<< ".", "l", "r", "c" >>,
                                               << ".", "J", "P", "G" >>})}}}

\* an apply-mode run over one folder "A" under such a configuration
InitCfg ==
    /\ tree = SingleTree
    /\ \E t \in Tables(CfgNames, {NoMeta}) : fs = [d \in {Root} |-> t]
    /\ args = [recursive |-> FALSE, force |-> TRUE]
    /\ cfg \in ExtConfigs
    /\ haveMagic = FALSE
    /\ havePyPdf2 = TRUE
    /\ InitProcess

SpecCfg == InitCfg /\ [][Next]_vars

(***************************************************************************)
(* A preview followed by the real run                                      *)
(***************************************************************************)

\* the tool is run again with --force on the tree the dry run left: a new
\* process, whose action_log starts empty; the dry run's log is kept aside
ApplyAfterPreview ==
    /\ pc = "done"
    /\ run = 1
    /\ ~args.force
    /\ args' = [args EXCEPT !.force = TRUE]
    /\ preview' = actionLog
    /\ run' = 2
    /\ pc' = "start"
    /\ startFs' = fs
    /\ actionLog' = << >>
    /\ actionCounters' = [k \in CounterKeys |-> 0]
    /\ pdfExts' = DefaultPdfExts
    /\ auxExts' = DefaultAuxExts
    /\ sidecarExts' = DefaultSidecarExts
    /\ sidecarPrefixes' = DefaultSidecarPrefixes
    /\ ignoreNoSpace' = DefaultIgnoreNoSpace
    /\ recursiveDefault' = DefaultRecursiveDefault
    /\ stack' = << >>
    /\ visited' = << >>
    /\ passes' = << >>
    /\ files' = << >>
    /\ survivors' = << >>
    /\ pre' = [t |-> << >>, n |-> 0]
    /\ selected' = NoneSelected
    /\ UNCHANGED << fs, tree, cfg, haveMagic, havePyPdf2, recursive, dryRun, cur,
                    trackName, trackInfo >>

NextPreview ==
    \/ Main
    \/ WalkStep
    \/ PdfDedup
    \/ PdfRename
    \/ AuxDedupStep
    \/ AuxRenameStep
    \/ GenericDedupStep
    \/ PairStep
    \/ Finish
    \/ ApplyAfterPreview

\* one album folder "A", default configuration, first run without --force
InitPreview ==
    /\ tree = SingleTree
    /\ \E t \in Tables(AlbumNames, {NoMeta}) \cup Tables(TrackNames, {NoMeta})
                  \cup Tables(MixedNames, {NoMeta}) :
           fs = [d \in {Root} |-> t]
    /\ args = [recursive |-> FALSE, force |-> FALSE]
    /\ cfg = NoConfig
    /\ haveMagic = FALSE
    /\ havePyPdf2 = TRUE
    /\ InitProcess

SpecPreview == InitPreview /\ [][NextPreview]_vars

(***************************************************************************)
(* Properties                                                              *)
(***************************************************************************)

\* the last step of process_directory was step p, on the current directory
AfterStep(p) ==
    /\ passes # << >>
    /\ passes[Len(passes)] = << cur, p >>
    /\ pc = NextPos(p)

\* the entries the last step of process_directory appended to action_log
NewLog == SubSeq(actionLog, pre.n + 1, Len(actionLog))

Apply == args.force

\* C1: in dry-run mode (no --force) no pass deletes, renames or replaces a file:
\* the tree's file names, contents and mtimes stay what they were when the run
\* started, and every action record the run appends is a previewed one.
C1_DryRunLeavesFilesAlone ==
    ~Apply =>
        /\ fs = startFs
        /\ \A i \in 1..Len(actionLog) : actionLog[i].dry

\* a finished dry run that previewed a duplicate removal and a rename
C1_Witness ==
    /\ ~Apply
    /\ pc = "done"
    /\ \E i, j \in 1..Len(actionLog) :
          /\ actionLog[i].op = "Remove duplicate (checksum)"
          /\ actionLog[j].op = "Rename Album Related:"

\* C2: a second run in apply mode on the tree the first apply-mode run left
\* appends no action record.
C2_SecondRunIsEmpty == (run = 2 /\ Apply) => actionLog = << >>

\* the number of entries of the log that record the removal of the duplicate n
Removals(log, n) ==
    Cardinality({i \in 1..Len(log) :
                    /\ log[i].op \in {"Remove duplicate (checksum)",
                                      "Remove duplicate (checksum) []"}
                    /\ log[i].src = n})

\* n is the file the claim says survives among the hashed candidates cands of
\* the table t: no candidate of the same content is newer, none of the same
\* mtime has a smaller name
Survivor(t, cands, n) ==
    \A x \in cands :
        t[x].c = t[n].c =>
            \/ t[x].m < t[n].m
            \/ t[x].m = t[n].m /\ LexLeq(n, x)

\* what a checksum pass over the candidates cands owes: one removal record for
\* each candidate that is not its group's survivor and nothing else, and in
\* apply mode exactly the survivors are left
DedupDone(cands) ==
    /\ \A n \in cands :
          Removals(NewLog, n) = IF Survivor(pre.t, cands, n) THEN 0 ELSE 1
    /\ Len(NewLog) = Cardinality({n \in cands : ~Survivor(pre.t, cands, n)})
    /\ Apply => \A n \in cands : (n \in DOMAIN fs[cur]) <=> Survivor(pre.t, cands, n)

\* the candidates of the three checksum passes in the table before the pass
PdfCandidates == {n \in DOMAIN pre.t : LowerExt(n) \in pdfExts /\ pre.t[n].rd}
AuxCandidates == {n \in DOMAIN pre.t : LowerExt(n) \in auxExts /\ pre.t[n].rd}
OtherCandidates ==
    {n \in Range(GenericCandidates(ListFiles(pre.t))) : pre.t[n].rd}

\* C3: in each checksum pass (PDF, AUX, generic), of every group of files with
\* the same content hash exactly the file with the greatest mtime, and among
\* those the smallest name, stays; each other member gets one removal record;
\* a file whose hash is unique gets none.
C3_NewestThenSmallestNameSurvives ==
    /\ AfterStep("pdf_dedup") => DedupDone(PdfCandidates)
    /\ AfterStep("aux_dedup") => DedupDone(AuxCandidates)
    /\ AfterStep("dedup") => DedupDone(OtherCandidates)

\* an apply-mode checksum pass over a group of three with two newest files
C3_Witness ==
    /\ Apply
    /\ AfterStep("pdf_dedup")
    /\ \E a, b, c \in PdfCandidates :
          /\ a # b /\ a # c /\ b # c
          /\ pre.t[a].c = pre.t[b].c /\ pre.t[b].c = pre.t[c].c
          /\ pre.t[a].m = pre.t[b].m /\ pre.t[c].m < pre.t[a].m
          /\ DOMAIN fs[cur] = {a}

\* the outcome the claim names for the sidecar f with target tgt in the table t
C4_Outcome(t, f, tgt) ==
    IF tgt = f THEN "none"
    ELSE IF tgt \notin DOMAIN t THEN "Rename Sidecar:"
    ELSE IF t[tgt].m < t[f].m THEN "Replace older target"
    ELSE "Delete Sidecar:"

\* the table after that outcome
C4_Effect(t, f, tgt, outcome) ==
    CASE outcome = "none" -> t
      [] outcome = "Delete Sidecar:" -> [x \in (DOMAIN t) \ {f} |-> t[x]]
      [] OTHER -> [x \in ((DOMAIN t) \ {f}) \cup {tgt} |-> IF x = tgt THEN t[f] ELSE t[x]]

\* the four outcomes applied to the sidecars todo in turn: the table left and the
\* records owed
RECURSIVE C4_Run(_, _, _, _)
C4_Run(t, todo, canon, ops) ==
    IF todo = << >> THEN [t |-> t, ops |-> ops]
    ELSE LET f    == Head(todo)
             info == extract_track_info(f)
         IN  IF ~info.match \/ info.track \notin DOMAIN canon
             THEN C4_Run(t, Tail(todo), canon, ops)
             ELSE LET tgt     == Stem(canon[info.track]) \o Ext(f)
                      outcome == C4_Outcome(t, f, tgt)
                  IN  C4_Run(IF Apply THEN C4_Effect(t, f, tgt, outcome) ELSE t,
                             Tail(todo), canon,
                             IF outcome = "none" THEN ops
                             ELSE Append(ops, [op |-> outcome, src |-> f, dst |-> tgt,
                                               dry |-> ~Apply]))

\* the number of entries of action_log with the given operation
Records(op) == Cardinality({i \in 1..Len(actionLog) : actionLog[i].op = op})

\* C4: for every sidecar/other file whose track has a canonical audio file the
\* pairer does exactly one of: nothing and no record (target = source); replace
\* the target (target exists, strictly older); delete the source (target exists,
\* not older); rename the source to the target (no target) - and counts it as a
\* replacement, a removed sidecar or a renamed sidecar.
C4_FourOutcomes ==
    AfterStep("pair") =>
        LET listing == ListFiles(pre.t)
            ref == C4_Run(pre.t, OtherFiles(pre.t, listing),
                          CanonicalMap(pre.t, listing), << >>)
        IN  /\ fs[cur] = ref.t
            /\ NewLog = ref.ops
            /\ actionCounters["replacements"] = Records("Replace older target")
            /\ actionCounters["removed_sidecars"] = Records("Delete Sidecar:")
            /\ actionCounters["renamed_sidecars"] = Records("Rename Sidecar:")

\* an apply-mode pairing that renamed one sidecar and deleted the next one, whose
\* mtime equals that of the target by then
C4_Witness ==
    /\ Apply
    /\ AfterStep("pair")
    /\ Len(NewLog) = 2
    /\ NewLog[1].op = "Rename Sidecar:"
    /\ NewLog[2].op = "Delete Sidecar:"
    /\ pre.t[NewLog[1].src].m = pre.t[NewLog[2].src].m

EndsWith(s, e) == Len(s) >= Len(e) /\ SubSeq(s, Len(s) - Len(e) + 1, Len(s)) = e

\* C5: a PDF/AUX rename whose plain target exists goes to <base> - N<ext> with
\* N >= 2: no file is ever renamed to a name with the suffix ' - 1'.
C5_FirstCollisionGetsSuffix2 ==
    \A i \in 1..Len(actionLog) :
        actionLog[i].op = "Rename Album Related:" =>
            ~EndsWith(Stem(actionLog[i].dst), << " ", "-", " ", "1" >>)

\* the pass an entry of action_log comes from: 1 PDF, 2 AUX, 3 generic checksum
\* dedup, 4 sidecar pairing
PassOf(r) ==
    IF r.op \in {"Remove duplicate (checksum)", "Rename Album Related:", "Rename Audio:"}
    THEN (IF LowerExt(r.src) \in pdfExts THEN 1 ELSE 2)
    ELSE IF r.op = "Remove duplicate (checksum) []" THEN 3
    ELSE 4

PassOrder == << "pdf_dedup", "pdf_rename", "aux_dedup", "aux_rename", "dedup", "pair" >>

\* C8: in every non-empty directory the passes run in the order PDF, AUX, generic
\* dedup and pairing; no record of a later pass precedes one of an earlier pass;
\* each pass starts from a listing that shows the directory as the pass before
\* left it.
C8_PassesInOrderOnFreshListings ==
    /\ \A i \in 1..Len(passes) :
          /\ passes[i][1] = Root
          /\ passes[i][2] = PassOrder[i]
    /\ \A i, j \in 1..Len(actionLog) :
          i < j => PassOf(actionLog[i]) <= PassOf(actionLog[j])
    /\ pc \in {"pdf_dedup", "aux_dedup", "dedup", "pair"} =>
          files = ListFiles(fs[cur])

\* the AUX pass starts in apply mode after the PDF pass renamed a file, and the
\* run goes on to rename a sidecar
C8_Witness ==
    /\ Apply
    /\ pc = "done"
    /\ run = 1
    /\ \E i, j \in 1..Len(actionLog) :
          /\ i < j
          /\ PassOf(actionLog[i]) = 1
          /\ PassOf(actionLog[j]) = 4

\* n is a name the canonical renamer gives in the folder named folder_name
\* when no metadata is used: <folder><ext> or <folder> - N<ext>
StandardName(n, folder_name) ==
    /\ Ext(n) = LowerExt(n)
    /\ \/ Stem(n) = folder_name
       \/ \E k \in 1..(MaxFiles + 1) :
              Stem(n) = folder_name \o << " ", "-", " " >> \o Decimal(k)

\* the sidecars the pairer had to act on: those whose track has a canonical
\* audio file and whose target is another name
Retargeted ==
    LET listing == ListFiles(pre.t)
        canon   == CanonicalMap(pre.t, listing)
    IN  {f \in Range(OtherFiles(pre.t, listing)) :
            /\ extract_track_info(f).match
            /\ extract_track_info(f).track \in DOMAIN canon
            /\ SidecarTarget(canon[extract_track_info(f).track], f) # f}

\* the target of a sidecar of Retargeted
TargetOf(f) ==
    SidecarTarget(CanonicalMap(pre.t, ListFiles(pre.t))[extract_track_info(f).track], f)

Immovable(t, n) == n \in DOMAIN t /\ ~t[n].mv

\* C6: in apply mode a failing hash computation, delete, rename or replace is
\* absorbed at its file: the run is never aborted; a file that cannot be moved
\* is left as it was; the other files are still processed (every other
\* duplicate is removed, every other survivor gets its canonical name, every
\* other sidecar leaves its old name); the later directory is still processed
\* and the run reaches its end.
C6_FailuresAreAbsorbed ==
    /\ pc # "aborted"
    /\ \A n \in DOMAIN startFs[Root] :
          ~startFs[Root][n].mv =>
              n \in DOMAIN fs[Root] /\ fs[Root][n] = startFs[Root][n]
    /\ (AfterStep("pdf_dedup") \/ AfterStep("dedup")) =>
          LET cands == IF pc = "pdf_rename" THEN PdfCandidates ELSE OtherCandidates
          IN  \A n \in cands :
                 /\ Removals(NewLog, n) = IF Survivor(pre.t, cands, n) THEN 0 ELSE 1
                 /\ n \in DOMAIN fs[cur] <=>
                       (Survivor(pre.t, cands, n) \/ Immovable(pre.t, n))
    /\ AfterStep("pdf_rename") =>
          \A n \in DOMAIN fs[cur] :
              (LowerExt(n) \in pdfExts /\ fs[cur][n].rd /\ fs[cur][n].mv) =>
                  StandardName(n, tree.name[cur])
    /\ AfterStep("pair") =>
          \A f \in Retargeted :
              f \in DOMAIN fs[cur] =>
                  Immovable(pre.t, f) \/ Immovable(pre.t, TargetOf(f))
    /\ pc = "done" =>
          /\ visited = << 0, 1 >>
          /\ DOMAIN fs[1] = {<< "d", "1", ".", "p", "d", "f" >>}

\* a finished run in which the removal of an audio duplicate failed and a
\* sidecar was renamed all the same
C6_Witness ==
    /\ pc = "done"
    /\ run = 1
    /\ \E i, j \in 1..Len(actionLog) :
          /\ i < j
          /\ actionLog[i].op = "Remove duplicate (checksum) []"
          /\ actionLog[i].src \in DOMAIN fs[Root]
          /\ actionLog[j].op = "Rename Sidecar:"
          /\ actionLog[j].dst \in DOMAIN fs[Root]

\* C7: in the PDF pass a file whose hash cannot be computed is never removed as a
\* duplicate and is handed to the canonical renamer like every other survivor:
\* when no operation on the directory fails, every PDF file left after the pass
\* has its canonical name.
C7_UnhashedFileIsRenamed ==
    (AfterStep("pdf_rename") /\ run = 1 /\ \A n \in DOMAIN pre.t : pre.t[n].mv) =>
        /\ \A n \in DOMAIN startFs[cur] :
              ~startFs[cur][n].rd => Removals(actionLog, n) = 0
        /\ \A n \in DOMAIN fs[cur] :
              LowerExt(n) \in pdfExts => StandardName(n, tree.name[cur])

\* the directories the walk may enter: no dot-directory, no symbolic link, and
\* nothing beneath one
Allowed == {d \in Dirs : \A a \in ({d} \cup Ancestors(d)) \ {Root} :
                ~StartsWith(tree.name[a], << "." >>) /\ ~tree.link[a]}

\* C9: with -r no directory below the root that is a dot-directory or a symbolic
\* link, or lies beneath one, is processed; every other directory is processed
\* exactly once, and after its parent.  Without -r only the root is processed.
C9_WalkPrunesAndVisitsOnce ==
    /\ \A i, j \in 1..Len(visited) : i # j => visited[i] # visited[j]
    /\ \A i \in 1..Len(visited) :
          /\ visited[i] \in Allowed
          /\ visited[i] # Root =>
                \E j \in 1..(i - 1) : visited[j] = tree.parent[visited[i]]
    /\ pc = "done" =>
          Range(visited) = IF args.recursive THEN Allowed ELSE {Root}

\* a finished recursive run that entered a sub-directory of a sub-directory and
\* left a symbolic link and a dot-directory aside
C9_Witness ==
    /\ pc = "done"
    /\ args.recursive
    /\ \E d \in Range(visited) : d # Root /\ tree.parent[d] # Root
    /\ \E d \in Dirs : d # Root /\ (tree.link[d] \/ StartsWith(tree.name[d], << "." >>))

\* C10: without -r, the run processes the sub-directories if and only if the
\* loaded configuration sets recursive_default to true.
C10_ConfigSwitchesRecursionOn ==
    (pc = "done" /\ ~args.recursive) =>
        Range(visited) =
            IF HasKey(cfg, "recursive_default", "bool") /\ ValueOf(cfg, "recursive_default")
            THEN Allowed ELSE {Root}

\* the digits a stem starts with after its leading white space, at most two
LeadingDigits(stem) ==
    LET s0 == LStrip(stem)
    IN  IF s0 = << >> \/ ~IsDigit(s0[1]) THEN << >>
        ELSE IF Len(s0) >= 2 /\ IsDigit(s0[2]) THEN << s0[1], s0[2] >>
        ELSE << s0[1] >>

\* C11: for every file name the parser reports no match or returns (n, title)
\* with n the value of the one or two leading digits of the stem, 1 <= n <= 99,
\* and title the non-empty trimmed remainder; with the no-space guard on, a
\* name without a space never matches.
C11_ParserGivesTrackAndTitle ==
    pc = "parsed" =>
        /\ trackInfo.match =>
              /\ trackInfo.track \in 1..99
              /\ LET d == LeadingDigits(Stem(trackName))
                 IN  /\ d # << >>
                     /\ \/ trackInfo.track = DigitVal(d[1])
                        \/ Len(d) = 2 /\ trackInfo.track = 10 * DigitVal(d[1]) + DigitVal(d[2])
              /\ trackInfo.rest # << >>
              /\ trackInfo.rest = Strip(trackInfo.rest)
        /\ (ignoreNoSpace /\ " " \notin Range(trackName)) => ~trackInfo.match

\* the renames of the log replayed on the table t: each one moves a file that
\* exists onto a name that is free when the rename is made
RECURSIVE RenamesOntoFree(_, _)
RenamesOntoFree(t, log) ==
    IF log = << >> THEN TRUE
    ELSE LET r == Head(log)
         IN  IF r.op \in {"Rename Album Related:", "Rename Audio:"}
             THEN /\ r.src \in DOMAIN t
                  /\ r.dst \notin DOMAIN t
                  /\ RenamesOntoFree(OsReplace(t, r.src, r.dst), Tail(log))
             ELSE RenamesOntoFree(t, Tail(log))

\* the files of the table t as a bag of [content, mtime, attributes], names aside
ContentBag(t) ==
    [v \in {t[n] : n \in DOMAIN t} |-> Cardinality({n \in DOMAIN t : t[n] = v})]

\* C12: in apply mode every rename of the PDF/AUX canonical renamer goes to a
\* name that is free when the rename is made: after the rename step the folder
\* holds as many files, with the same contents, as right after deduplication.
C12_RenamerNeverOverwrites ==
    (Apply /\ (AfterStep("pdf_rename") \/ AfterStep("aux_rename"))) =>
        /\ RenamesOntoFree(pre.t, NewLog)
        /\ Cardinality(DOMAIN fs[cur]) = Cardinality(DOMAIN pre.t)
        /\ ContentBag(fs[cur]) = ContentBag(pre.t)

\* an apply-mode PDF rename step that renamed two survivors with the same base
\* name, the second one to a suffixed name
C12_Witness ==
    /\ Apply
    /\ AfterStep("pdf_rename")
    /\ Len(NewLog) = 2
    /\ NewLog[1].op = "Rename Album Related:"
    /\ NewLog[2].op = "Rename Album Related:"
    /\ NewLog[1].dst # NewLog[2].dst
    /\ {NewLog[1].dst, NewLog[2].dst} \subseteq DOMAIN fs[cur]

\* the files the pairing step classified as audio
PairAudio == Range(AudioFiles(pre.t, ListFiles(pre.t)))

\* C13: the pairing step leaves every file classified as audio in place and
\* unchanged; every rename, replace or delete it records has a sidecar/other
\* file as its source.
C13_PairerLeavesAudioAlone ==
    AfterStep("pair") =>
        /\ \A a \in PairAudio : a \in DOMAIN fs[cur] /\ fs[cur][a] = pre.t[a]
        /\ \A i \in 1..Len(NewLog) : NewLog[i].src \notin PairAudio

\* C14: under every configuration of the extension sets the candidates of the
\* PDF pass, the AUX pass and the generic pass of a directory are pairwise
\* disjoint, and no file with a sidecar extension or a sidecar prefix is a
\* candidate of any of them.
C14_CandidateSetsDisjoint ==
    /\ selected.pdf \cap selected.aux = {}
    /\ selected.pdf \cap selected.other = {}
    /\ selected.aux \cap selected.other = {}
    /\ \A n \in selected.pdf \cup selected.aux \cup selected.other :
          LowerExt(n) \notin sidecarExts /\ ~is_sidecar_by_prefix(n)

\* the sidecar/other files of the table t whose name parses to the track k and
\* whose extension is the string e
TrackSidecars(t, k, e) ==
    {f \in Range(OtherFiles(t, ListFiles(t))) :
        /\ extract_track_info(f).match
        /\ extract_track_info(f).track = k
        /\ Ext(f) = e}

\* C15: after an apply-mode pairing pass, for every track with a canonical
\* audio file and every sidecar extension string, at most one of the track's
\* sidecars with that extension remains, the one named <canonical stem><ext>,
\* and it is a sidecar of greatest mtime among all contenders, the target that
\* was there before included.
C15_NewestSidecarWins ==
    (Apply /\ AfterStep("pair")) =>
        LET canon == CanonicalMap(pre.t, ListFiles(pre.t))
        IN  \A k \in DOMAIN canon :
                \A e \in {Ext(f) : f \in DOMAIN pre.t} :
                    LET contenders == TrackSidecars(pre.t, k, e)
                        target     == Stem(canon[k]) \o e
                        left       == TrackSidecars(fs[cur], k, e)
                    IN  contenders # {} =>
                            /\ left \subseteq {target}
                            /\ target \in left =>
                                  \E c \in contenders :
                                      /\ fs[cur][target] = pre.t[c]
                                      /\ \A d \in contenders : pre.t[d].m <= pre.t[c].m

\* an apply-mode pairing in which the first contender was renamed to the target
\* and a newer second contender then replaced it
C15_Witness ==
    /\ Apply
    /\ AfterStep("pair")
    /\ Len(NewLog) = 2
    /\ NewLog[1].op = "Rename Sidecar:"
    /\ NewLog[2].op = "Replace older target"
    /\ NewLog[2].dst \in DOMAIN fs[cur]
    /\ fs[cur][NewLog[2].dst] = pre.t[NewLog[2].src]

\* an action record without its [DRY]/[DO ] prefix
Unprefixed(log) == [i \in 1..Len(log) |-> [op |-> log[i].op, src |-> log[i].src, dst |-> log[i].dst]]

\* C16: the dry run is a faithful preview: the action records of a dry run
\* equal, up to the [DRY]/[DO ] prefix, the action records of the apply-mode
\* run on the same tree (same operations, same sources, same targets).
C16_PreviewMatchesApply ==
    (run = 2 /\ pc = "done") => Unprefixed(actionLog) = Unprefixed(preview)

====
